---- MODULE Spec2Model ----
(***************************************************************************)
(* The user data-access module (addUser, addBasicUser, updateUser,         *)
(* multiUpdateUser, deleteUser, getUser, getCreatedEvents) over the User   *)
(* and Event collections of the document store.                            *)
(*                                                                         *)
(* Every `await` of the module is a store round trip.  A function with one *)
(* round trip is one action; a function with two (lookup, then save or     *)
(* query) is two actions, and other requests may run between them.         *)
(* The participatingIn references and their population are left out: no    *)
(* property below reads them.                                              *)
(***************************************************************************)
EXTENDS Integers, Sequences, FiniteSets, TLC

\* ---------------------------------------------------------------- bounds
MaxId == 2          \* user documents ever inserted
MaxEvents == 1      \* events ever inserted

\* ---------------------------------------------------------------- state
VARIABLES
    users,      \* the User collection
    events,     \* the Event collection
    nextId,     \* the next fresh _id
    call,       \* per request: the call suspended between two round trips
    ret         \* the last value a call returned to its caller
vars == <<users, events, nextId, call, ret>>

\* ---------------------------------------------------------------- inputs
Procs == {"r1", "r2"}                 \* concurrent requests
None == "undefined"                   \* an absent / undefined field value
Fields == <<"firstname", "lastname", "username", "email">>
FieldSet == {Fields[i] : i \in 1..Len(Fields)}

Entry(f, v) == [field |-> f, value |-> v]

\* The arguments requests are issued with. One request at a time draws from
\* SeqInputs; concurrent requests draw from the smaller ConcInputs.
SeqInputs ==
    [ usernames |-> {"ann", "bob"},
      userObjs |-> [firstname : {"Ann"}, lastname : {"Lee"},
                    username : {"ann", "bob"},
                    email : {"a@x.com", "b@x.com", None}],
      updates |-> {Entry("firstname", "Ann"), Entry("lastname", None),
                   Entry("username", "ann"), Entry("username", "bob"),
                   Entry("email", "a@x.com"), Entry("email", "b@x.com"),
                   Entry("email", None)},
      lists |-> { <<>>,
                  <<Entry("email", "b@x.com")>>,
                  <<Entry("email", "a@x.com"), Entry("email", "b@x.com")>>,
                  <<Entry("email", "b@x.com"), Entry("email", "a@x.com")>>,
                  <<Entry("username", "bob"), Entry("email", "b@x.com")>>,
                  <<Entry("email", "a@x.com"), Entry("username", "bob"),
                    Entry("email", "b@x.com")>>,
                  <<Entry("email", "b@x.com"), Entry("email", None)>> } ]

ConcInputs ==
    [ usernames |-> {"ann", "bob"},
      userObjs |-> [firstname : {"Ann"}, lastname : {"Lee"},
                    username : {"ann", "bob"}, email : {"a@x.com"}],
      updates |-> {Entry("username", "bob")},
      lists |-> {<<>>, <<Entry("username", "bob")>>} ]

\* ---------------------------------------------------------------- documents
\* A User document: the internal identifier and the four required fields.
NullDoc == [id |-> 0, firstname |-> None, lastname |-> None,
            username |-> None, email |-> None]
IsNull(d) == d.id = 0

UserIds(store) == {d.id : d \in store}

\* Mutant of NewUser: first and last name stored in each other's field.
NewUserSwapped(id, firstname, lastname, username, email) ==
    [id |-> id, firstname |-> lastname, lastname |-> firstname,
     username |-> username, email |-> email]

\* new userDao.User({firstname, lastname, username, email}) with a fresh _id
NewUser(id, firstname, lastname, username, email) ==
    [id |-> id, firstname |-> firstname, lastname |-> lastname,
     username |-> username, email |-> email]

\* userDao.User({...userObj}) with a fresh _id
NewUserFromObj(id, userObj) ==
    [id |-> id, firstname |-> userObj.firstname, lastname |-> userObj.lastname,
     username |-> userObj.username, email |-> userObj.email]

\* Schema validation run by save(): every required field is present.
Validates(d) == \A f \in FieldSet : d[f] # None

\* Mutant of DuplicateKey: no unique index on username.
NoDuplicateKey(store, d) == FALSE

\* The unique index on username: another document already holds d's username.
DuplicateKey(store, d) ==
    \E e \in store : e.id # d.id /\ e.username = d.username

\* Mutant of FindOne: the username filter is dropped, any document matches.
FindAny(store, username) ==
    IF store # {} THEN CHOOSE d \in store : TRUE ELSE NullDoc

\* User.findOne({username}).exec(): the matching document, or null.
FindOne(store, username) ==
    IF \E d \in store : d.username = username
    THEN CHOOSE d \in store : d.username = username
    ELSE NullDoc

FindById(store, id) ==
    IF \E d \in store : d.id = id
    THEN CHOOSE d \in store : d.id = id
    ELSE NullDoc

\* save() of a new document: an insert. [store, ok]
InsertSave(store, d, up) ==
    IF up /\ Validates(d) /\ ~DuplicateKey(store, d)
    THEN [store |-> store \cup {d}, ok |-> TRUE]
    ELSE [store |-> store, ok |-> FALSE]

\* Mutant of DeleteOne: the filter matches nothing.
DeleteNone(store, username) == store

\* User.deleteOne({username}).exec(): removes at most one matching document.
DeleteOne(store, username) == store \ {FindOne(store, username)}

\* Mutant of UpdateSave: the update upserts, so a document that is no longer
\* stored is written back.
UpdateSaveUpsert(store, d, mod, up) ==
    LET cur == FindById(store, d.id)
        new == [f \in DOMAIN d |-> IF f \in mod \/ IsNull(cur) THEN d[f] ELSE cur[f]]
    IN IF up /\ Validates(d) /\ ~DuplicateKey(store, new)
       THEN [store |-> (store \ {cur}) \cup {new}, ok |-> TRUE]
       ELSE [store |-> store, ok |-> FALSE]

\* Mutant of UpdateSave: save() resolves without sending the modified paths.
UpdateSaveNothing(store, d, mod, up) ==
    [store |-> store,
     ok |-> up /\ Validates(d) /\ ~IsNull(FindById(store, d.id))]

\* save() of a loaded document whose paths `mod` were modified: an update of
\* those paths on the stored document with the same _id. [store, ok]
UpdateSave(store, d, mod, up) ==
    LET cur == FindById(store, d.id)
        new == [f \in DOMAIN cur |-> IF f \in mod THEN d[f] ELSE cur[f]]
    IN IF up /\ Validates(d) /\ ~IsNull(cur) /\ ~DuplicateKey(store, new)
       THEN [store |-> (store \ {cur}) \cup {new}, ok |-> TRUE]
       ELSE [store |-> store, ok |-> FALSE]

\* userToUpdate[field] = value
Assign(d, field, value) == [d EXCEPT ![field] = value]

\* The paths an assignment marks modified: a changed value marks its path.
Marks(d, field, value) == IF d[field] # value THEN {field} ELSE {}

\* Mutant of ApplyUpdates: the list is applied back to front (first entry wins).
RECURSIVE ApplyUpdatesReversed(_, _, _)
ApplyUpdatesReversed(d, mod, updates) ==
    IF updates = <<>>
    THEN [doc |-> d, mod |-> mod]
    ELSE LET n == Len(updates)
             element == updates[n]
         IN ApplyUpdatesReversed(Assign(d, element.field, element.value),
                                 mod \cup Marks(d, element.field, element.value),
                                 SubSeq(updates, 1, n - 1))

\* for (const element of updates) userToUpdate[element.field] = element.value
\* [doc, mod]: the document after the assignments and the paths they modified.
RECURSIVE ApplyUpdates(_, _, _)
ApplyUpdates(d, mod, updates) ==
    IF updates = <<>>
    THEN [doc |-> d, mod |-> mod]
    ELSE LET element == Head(updates)
         IN ApplyUpdates(Assign(d, element.field, element.value),
                         mod \cup Marks(d, element.field, element.value),
                         Tail(updates))

\* Mutant of FindEvents: the creator filter is dropped.
FindEventsAll(evs, id) == evs

\* Mutant of FindEvents: the events of a user who is no longer stored are gone.
FindEventsOfStored(evs, id) ==
    IF id \in UserIds(users) THEN {e \in evs : e.creator = id} ELSE {}

\* Event.find({creator: id}).exec()
FindEvents(evs, id) == {e \in evs : e.creator = id}

Idle == [op |-> "idle"]
NoRet == [op |-> "none"]

\* What a call returned: kind is "doc", "null", "true", "false", "events" or
\* "rejected"; id is the _id of the document the call worked on (0: none).
Response(op, username, up, id, kind, evs) ==
    [op |-> op, up |-> up, id |-> id, kind |-> kind, evs |-> evs]

Init ==
    /\ users = {}
    /\ events = {}
    /\ nextId = 1
    /\ call = [p \in Procs |-> Idle]
    /\ ret = NoRet

\* addUser(userObj): the promise of save() is returned without await, so a
\* failed save rejects the call instead of reaching the catch block.
AddUserStep(p, userObj, up) ==
    /\ call[p] = Idle
    /\ nextId <= MaxId
    /\ LET newUser == NewUserFromObj(nextId, userObj)
           r == InsertSave(users, newUser, up)
       IN /\ users' = r.store
          /\ nextId' = IF r.ok THEN nextId + 1 ELSE nextId
          /\ ret' = Response("addUser", userObj.username, up,
                             IF r.ok THEN newUser.id ELSE 0,
                             IF r.ok THEN "doc" ELSE "rejected", {})
    /\ UNCHANGED <<events, call>>

AddUser(p, I) == \E userObj \in I.userObjs, up \in BOOLEAN : AddUserStep(p, userObj, up)

\* addBasicUser(firstname, lastname, username, email)
AddBasicUserStep(p, firstname, lastname, username, email, up) ==
    /\ call[p] = Idle
    /\ nextId <= MaxId
    /\ LET newUser == NewUser(nextId, firstname, lastname, username, email)
           r == InsertSave(users, newUser, up)
       IN /\ users' = r.store
          /\ nextId' = IF r.ok THEN nextId + 1 ELSE nextId
          /\ ret' = Response("addBasicUser", username, up,
                             IF r.ok THEN newUser.id ELSE 0,
                             IF r.ok THEN "doc" ELSE "null", {})
    /\ UNCHANGED <<events, call>>

AddBasicUser(p, I) ==
    \E o \in I.userObjs, up \in BOOLEAN :
        AddBasicUserStep(p, o.firstname, o.lastname, o.username, o.email, up)

\* deleteUser(username)
DeleteUserStep(p, username, up) ==
    /\ call[p] = Idle
    /\ users' = IF up THEN DeleteOne(users, username) ELSE users
    /\ ret' = Response("deleteUser", username, up,
                       IF up THEN FindOne(users, username).id ELSE 0,
                       IF up THEN "true" ELSE "false", {})
    /\ UNCHANGED <<events, nextId, call>>

DeleteUser(p, I) == \E un \in I.usernames, up \in BOOLEAN : DeleteUserStep(p, un, up)

\* await User.findOne({username})...exec() inside a try block: the document;
\* null when nothing matches or when the query throws.
Query(store, username, up) == IF up THEN FindOne(store, username) ELSE NullDoc

\* The value getUser(username) resolves to: the document, or null.
getUser(store, username, up) == Query(store, username, up)

GetUserStep(p, username, up) ==
    /\ call[p] = Idle
    /\ LET desiredUser == getUser(users, username, up)
       IN ret' = Response("getUser", username, up, desiredUser.id,
                          IF IsNull(desiredUser) THEN "null" ELSE "doc", {})
    /\ UNCHANGED <<users, events, nextId, call>>

GetUser(p, I) == \E un \in I.usernames, up \in BOOLEAN : GetUserStep(p, un, up)

\* updateUser(username, field, value), first round trip: findOne. A missing
\* user (or a failed query) makes the assignment throw: the call returns null.
UpdateUserLookupStep(p, username, field, value, up) ==
    /\ call[p] = Idle
    /\ LET userToUpdate == Query(users, username, up)
       IN IF IsNull(userToUpdate)
          THEN /\ ret' = Response("updateUser", username, up, 0, "null", {})
               /\ call' = call
          ELSE /\ call' = [call EXCEPT ![p] =
                               [op |-> "updateUser", field |-> field,
                                value |-> value, doc |-> userToUpdate]]
               /\ ret' = ret
    /\ UNCHANGED <<users, events, nextId>>

UpdateUserLookup(p, I) ==
    \E un \in I.usernames, e \in I.updates, up \in BOOLEAN :
        UpdateUserLookupStep(p, un, e.field, e.value, up)

\* updateUser, second round trip: the assignment, then save().
UpdateUserSaveStep(p, up) ==
    /\ call[p].op = "updateUser"
    /\ LET c == call[p]
           d == Assign(c.doc, c.field, c.value)
           r == UpdateSave(users, d, Marks(c.doc, c.field, c.value), up)
       IN /\ users' = r.store
          /\ ret' = Response("updateUser", c.doc.username, up, c.doc.id,
                             IF r.ok THEN "doc" ELSE "null", {})
    /\ call' = [call EXCEPT ![p] = Idle]
    /\ UNCHANGED <<events, nextId>>

UpdateUserSave(p) == \E up \in BOOLEAN : UpdateUserSaveStep(p, up)

\* multiUpdateUser(username, updates), first round trip: findOne.
MultiUpdateUserLookupStep(p, username, updates, up) ==
    /\ call[p] = Idle
    /\ LET userToUpdate == Query(users, username, up)
       IN IF IsNull(userToUpdate)
          THEN /\ ret' = Response("multiUpdateUser", username, up, 0, "null", {})
               /\ call' = call
          ELSE /\ call' = [call EXCEPT ![p] =
                               [op |-> "multiUpdateUser", updates |-> updates,
                                doc |-> userToUpdate]]
               /\ ret' = ret
    /\ UNCHANGED <<users, events, nextId>>

MultiUpdateUserLookup(p, I) ==
    \E un \in I.usernames, updates \in I.lists, up \in BOOLEAN :
        MultiUpdateUserLookupStep(p, un, updates, up)

\* multiUpdateUser, second round trip: the assignments in order, then one save().
MultiUpdateUserSaveStep(p, up) ==
    /\ call[p].op = "multiUpdateUser"
    /\ LET c == call[p]
           u == ApplyUpdates(c.doc, {}, c.updates)
           r == UpdateSave(users, u.doc, u.mod, up)
       IN /\ users' = r.store
          /\ ret' = Response("multiUpdateUser", c.doc.username, up, c.doc.id,
                             IF r.ok THEN "doc" ELSE "null", {})
    /\ call' = [call EXCEPT ![p] = Idle]
    /\ UNCHANGED <<events, nextId>>

MultiUpdateUserSave(p) == \E up \in BOOLEAN : MultiUpdateUserSaveStep(p, up)

\* getCreatedEvents(username), first round trip: getUser. A null user makes
\* user._id throw: the call returns null.
GetCreatedEventsLookupStep(p, username, up) ==
    /\ call[p] = Idle
    /\ LET user == getUser(users, username, up)
       IN IF IsNull(user)
          THEN /\ ret' = Response("getCreatedEvents", username, up, 0, "null", {})
               /\ call' = call
          ELSE /\ call' = [call EXCEPT ![p] =
                               [op |-> "getCreatedEvents", doc |-> user]]
               /\ ret' = ret
    /\ UNCHANGED <<users, events, nextId>>

GetCreatedEventsLookup(p, I) ==
    \E un \in I.usernames, up \in BOOLEAN : GetCreatedEventsLookupStep(p, un, up)

\* getCreatedEvents, second round trip: Event.find({creator: user._id}).
GetCreatedEventsFindStep(p, up) ==
    /\ call[p].op = "getCreatedEvents"
    /\ LET user == call[p].doc
       IN ret' = Response("getCreatedEvents", user.username, up, user.id,
                          IF up THEN "events" ELSE "null",
                          IF up THEN FindEvents(events, user.id) ELSE {})
    /\ call' = [call EXCEPT ![p] = Idle]
    /\ UNCHANGED <<users, events, nextId>>

GetCreatedEventsFind(p) == \E up \in BOOLEAN : GetCreatedEventsFindStep(p, up)

\* An Event is created with its creator set to a stored user's identifier.
CreateEvent ==
    /\ Cardinality(events) < MaxEvents
    /\ \E d \in users :
          events' = events \cup {[eid |-> Cardinality(events) + 1, creator |-> d.id]}
    /\ UNCHANGED <<users, nextId, call, ret>>

Request(p, I) ==
    \/ AddUser(p, I)
    \/ AddBasicUser(p, I)
    \/ DeleteUser(p, I)
    \/ GetUser(p, I)
    \/ UpdateUserLookup(p, I)
    \/ UpdateUserSave(p)
    \/ MultiUpdateUserLookup(p, I)
    \/ MultiUpdateUserSave(p)
    \/ GetCreatedEventsLookup(p, I)
    \/ GetCreatedEventsFind(p)

\* Concurrent requests.
Next == (\E p \in Procs : Request(p, ConcInputs)) \/ CreateEvent

Spec == Init /\ [][Next]_vars

\* One request at a time.
SeqNext == Request("r1", SeqInputs) \/ CreateEvent

SeqSpec == Init /\ [][SeqNext]_vars

\* ---------------------------------------------------------------- claims
Stored(username) == \E d \in users : d.username = username
ValidObj(o) == \A f \in FieldSet : o[f] # None

\* C1: a valid creation (addBasicUser or addUser) of a username not yet stored,
\* with the store reachable, returns the saved document, and getUser(username)
\* right after it returns a non-null record with the firstname, lastname,
\* username and email that were passed in.
C1_CreateThenGet ==
    [][\A o \in SeqInputs.userObjs :
          /\ \/ AddBasicUserStep("r1", o.firstname, o.lastname, o.username, o.email, TRUE)
             \/ AddUserStep("r1", o, TRUE)
          /\ ValidObj(o)
          /\ ~Stored(o.username)
          => LET got == getUser(users', o.username, TRUE)
             IN /\ ret'.kind = "doc"
                /\ ~IsNull(got)
                /\ \A f \in FieldSet : got[f] = o[f]]_vars

C1_Witness ==
    /\ ret.op = "addBasicUser"
    /\ ret.kind = "doc"
    /\ ret.id \in UserIds(users)

\* C2: with the store reachable, deleteUser(username) returns true in every
\* state (user stored or not), getUser(username) right after it returns null,
\* and a second deleteUser(username) finds nothing left to remove.
C2_DeleteIdempotent ==
    [][\A un \in SeqInputs.usernames :
          DeleteUserStep("r1", un, TRUE)
          => /\ ret'.kind = "true"
             /\ IsNull(getUser(users', un, TRUE))
             /\ DeleteOne(users', un) = users']_vars

\* a deleteUser that matched no document (as a second call does) returned true
C2_Witness ==
    /\ ret.op = "deleteUser"
    /\ ret.kind = "true"
    /\ ret.id = 0
    /\ users # {}

\* C3: addUser never rejects: a failed save makes it return null.
C3_AddUserNeverRejects == ret.op = "addUser" => ret.kind # "rejected"

\* C4 as claimed: after updateUser(username, field, value) returns a record,
\* getUser(username) returns a record whose field holds the value, every other
\* field as before the update.
C4_GetByOldUsername ==
    [][\A up \in BOOLEAN :
          UpdateUserSaveStep("r1", up) /\ ret'.kind = "doc"
          => LET c == call["r1"]
                 before == FindById(users, c.doc.id)
                 got == getUser(users', c.doc.username, TRUE)
             IN /\ ~IsNull(got)
                /\ got[c.field] = c.value
                /\ \A f \in FieldSet \ {c.field} : got[f] = before[f]]_vars

\* C4 amended: after updateUser(username, field, value) returns a record,
\* getUser of the username the user has after the update (value when field is
\* "username", else username) returns a record whose field holds the value,
\* every other field as before the update.
C4_GetByCurrentUsername ==
    [][\A up \in BOOLEAN :
          UpdateUserSaveStep("r1", up) /\ ret'.kind = "doc"
          => LET c == call["r1"]
                 before == FindById(users, c.doc.id)
                 now == IF c.field = "username" THEN c.value ELSE c.doc.username
                 got == getUser(users', now, TRUE)
             IN /\ ~IsNull(got)
                /\ got.id = c.doc.id
                /\ got[c.field] = c.value
                /\ \A f \in FieldSet \ {c.field} : got[f] = before[f]]_vars

\* updateUser returned the record of a stored user now named bob with the
\* second email
C4_Witness ==
    /\ ret.op = "updateUser"
    /\ ret.kind = "doc"
    /\ \E d \in users : d.id = ret.id /\ d.username = "bob" /\ d.email = "b@x.com"

Named(updates, f) == \E i \in 1..Len(updates) : updates[i].field = f
LastValue(updates, f) ==
    LET last == CHOOSE i \in 1..Len(updates) :
                    /\ updates[i].field = f
                    /\ \A j \in (i + 1)..Len(updates) : updates[j].field # f
    IN updates[last].value

C7_UsernameUnique ==
    \A d, e \in users : d.username = e.username => d = e

\* two users are stored and a rename of one to the other's username failed
C7_Witness ==
    /\ Cardinality(users) = 2
    /\ ret.op = "updateUser"
    /\ ret.kind = "null"
    /\ ret.up
    /\ ret.id \in UserIds(users)

\* C8: with the store reachable, getCreatedEvents for a user found by the
\* lookup returns exactly the events whose creator is that user's identifier:
\* a collection (empty when there are none), never null.
C8_CreatedEvents ==
    [][GetCreatedEventsFindStep("r1", TRUE)
          => LET id == call["r1"].doc.id
             IN /\ ret'.kind = "events"
                /\ ret'.evs = {e \in events : e.creator = id}
                /\ (~\E e \in events : e.creator = id) => ret'.evs = {}]_vars

\* a stored user who created nothing got the empty collection while another
\* user's event exists
C8_Witness ==
    /\ ret.op = "getCreatedEvents"
    /\ ret.kind = "events"
    /\ ret.evs = {}
    /\ ret.id \in UserIds(users)
    /\ events # {}

Vanished(p) == call[p].doc.id \notin UserIds(users)

\* C9 as claimed: when the user is deleted between the two round trips of
\* getCreatedEvents, the second query returns an empty collection (not null).
C9_EmptyAfterDelete ==
    [][\A p \in Procs :
          GetCreatedEventsFindStep(p, TRUE) /\ Vanished(p)
          => ret'.kind = "events" /\ ret'.evs = {}]_vars

\* C9 amended: when the user is deleted between the two round trips of
\* getCreatedEvents, the second query, the store being reachable, returns the
\* events whose creator is the identifier read by the first round trip (the
\* deleted user's events, which deleteUser leaves in place), not null.
C9_EventsOfDeletedUser ==
    [][\A p \in Procs :
          GetCreatedEventsFindStep(p, TRUE) /\ Vanished(p)
          => /\ ret'.kind = "events"
             /\ ret'.evs = {e \in events : e.creator = call[p].doc.id}]_vars

\* the events of a user deleted between the two round trips were returned
C9_Witness ==
    /\ ret.op = "getCreatedEvents"
    /\ ret.kind = "events"
    /\ ret.id \notin UserIds(users)
    /\ ret.evs # {}

\* C10: when the user is deleted between the lookup and the save of
\* updateUser or multiUpdateUser, the save fails, the call returns null, and
\* the store is left as it was: the deleted user is not written back, so
\* getUser(username) still returns what it returned before the save.
C10_UpdateAfterDelete ==
    [][\A p \in Procs, up \in BOOLEAN :
          /\ UpdateUserSaveStep(p, up) \/ MultiUpdateUserSaveStep(p, up)
          /\ Vanished(p)
          => /\ ret'.kind = "null"
             /\ users' = users
             /\ call[p].doc.id \notin UserIds(users')
             /\ getUser(users', call[p].doc.username, TRUE)
                    = getUser(users, call[p].doc.username, TRUE)]_vars

\* an update whose user was deleted after the lookup returned null with the
\* store reachable, and the username is not stored
C10_Witness ==
    /\ ret.op \in {"updateUser", "multiUpdateUser"}
    /\ ret.kind = "null"
    /\ ret.up
    /\ ret.id # 0
    /\ ret.id \notin UserIds(users)
    /\ users = {}
====
